---- MODULE Spec2Model ----
(***************************************************************************)
(* The engine coordinator (DBImpl) of the vector database: its lifecycle   *)
(* (Start / Stop), the insert path, the timer thread with its compaction   *)
(* and index-build tasks, MergeFiles, CreateIndex, DeleteTable and the     *)
(* other public operations, as a state machine over the coordinator's      *)
(* fields and the metadata store.                                          *)
(*                                                                         *)
(* The coordinator is src/core/src/db/DBImpl.cpp.  The metadata store, the *)
(* memory manager, the index engine and the scheduler are collaborators    *)
(* whose code is elsewhere; they are modelled from their contracts in      *)
(* spec.md (sections 3, 4 and 6) and are marked so in MODEL_MAP.json.      *)
(***************************************************************************)
EXTENDS Integers, Sequences, FiniteSets, TLC

(***************************************************************************)
(* Bounds of the model.                                                    *)
(***************************************************************************)
MaxInserts == 3        \* InsertVectors calls in a behaviour, at most
MaxLifeCalls == 3      \* Start / Stop calls in a behaviour
MaxIndexCalls == 1     \* CreateIndex calls of one caller in a behaviour
MaxDeletes == 1        \* DeleteTable calls in a behaviour
MaxApiCalls == 2       \* calls of the other public operations in a behaviour

(***************************************************************************)
(* Program constants.                                                      *)
(***************************************************************************)
ONE_MB == 1048576              \* index_file_size is stored as MB * ONE_MB
merge_trigger_number == 2      \* options_.merge_trigger_number_
RowBytes == 524288             \* bytes one stored vector takes in an artifact

TableOrder == <<"t1">>             \* the tables, in std::set<std::string> order
Tables == {TableOrder[i] : i \in 1 .. Len(TableOrder)}
Dates == {1, 2}
Modes == {"SINGLE", "CLUSTER_READONLY", "CLUSTER_WRITABLE"}
Engines == {"IDMAP", "IVFFLAT"}
Callers == {"c1", "c2"}
MaxFiles == 2 * MaxInserts
FileIds == 1 .. MaxFiles

FileTypes == {"NEW", "NEW_MERGE", "NEW_INDEX", "RAW", "TO_INDEX", "INDEX",
              "BACKUP", "TO_DELETE"}

VARIABLES
    mode,                    \* options_.mode_
    shutting_down,           \* shutting_down_
    today,                   \* utils::GetDate()
    bg_timer_thread,         \* bg_timer_thread_: TRUE iff joinable
    timer_pc,                \* position of BackgroundTimerTask
    mem_serialize_mutex,     \* owner of mem_serialize_mutex_, or "free"
    compact_result_mutex,    \* owner of compact_result_mutex_, or "free"
    index_result_mutex,      \* owner of index_result_mutex_, or "free"
    build_index_mutex,       \* owner of build_index_mutex_, or "free"
    mem,                     \* mem_mgr_: rows buffered per table
    temp_table_ids,          \* MemSerialize's local temp_table_ids, per thread
    compact_table_ids,       \* compact_table_ids_
    compact_thread_results,  \* compact_thread_results_: futures of the pool
    index_thread_results,    \* index_thread_results_
    cw,                      \* the compaction pool's thread, in BackgroundCompaction
    iw,                      \* the index pool's thread, in BackgroundBuildIndex
    merge_ret,               \* what the last MergeFiles call returned
    tables,                  \* metadata store: table schemas
    files,                   \* metadata store: table files
    ctl,                     \* the thread that calls Start and Stop
    ins,                     \* the thread that calls InsertVectors
    ci,                      \* the threads that call CreateIndex
    del,                     \* the thread that calls DeleteTable
    ret,                     \* what the last finished public operation returned
    api,                     \* the thread that calls the other public operations
    cpu_cache,               \* cache::CpuCacheMgr: the files loaded, and their size
    search_job               \* the last SearchJob put to the scheduler

coordVars == <<mode, shutting_down, today, bg_timer_thread, timer_pc>>
mutexVars == <<mem_serialize_mutex, compact_result_mutex, index_result_mutex,
               build_index_mutex>>
memVars == <<mem, temp_table_ids, compact_table_ids>>
poolVars == <<compact_thread_results, index_thread_results, cw, iw, merge_ret>>
metaVars == <<tables, files>>
callerVars == <<ctl, ins, ci, del, ret>>
apiVars == <<api, cpu_cache, search_job>>
vars == <<coordVars, mutexVars, memVars, poolVars, metaVars, callerVars, apiVars>>

(***************************************************************************)
(* Helpers on sets and sequences.                                          *)
(***************************************************************************)
Min(S) == CHOOSE x \in S : \A y \in S : x <= y

RECURSIVE SortedSeq(_)
SortedSeq(S) == IF S = {} THEN <<>> ELSE <<Min(S)>> \o SortedSeq(S \ {Min(S)})

Range(s) == {s[i] : i \in 1 .. Len(s)}

RECURSIVE SumRows(_, _)
SumRows(fs, s) == IF s = <<>> THEN 0
                  ELSE fs[Head(s)].row_count + SumRows(fs, Tail(s))

(***************************************************************************)
(* The metadata store.  A table file is a record; an id not allocated yet  *)
(* has type NONE and one physically removed has type REMOVED.              *)
(***************************************************************************)
NoFile == [type |-> "NONE", table |-> "", date |-> 0, row_count |-> 0,
           file_size |-> 0, engine_type |-> "", index_file_size |-> 0, age |-> 0]
GoneFile == [NoFile EXCEPT !.type = "REMOVED"]

NoTable == [state |-> "none", index_file_size |-> 0, flag |-> 0,
            engine_type |-> "IDMAP", metric_type |-> "L2", nlist |-> 0]

Live(fs, f) == fs[f].type \notin {"NONE", "REMOVED"}

TableExists(tb, t) == tb[t].state = "ok"

\* CreateTableFile(&file): allocates the next id; the file inherits the table's schema.
CanCreateTableFile(tb, fs, t) ==
    TableExists(tb, t) /\ \E f \in FileIds : fs[f].type = "NONE"

NextFileId(fs) == Min({f \in FileIds : fs[f].type = "NONE"})

CreateTableFile(tb, fs, t, type, date, rows) ==
    [fs EXCEPT ![NextFileId(fs)] =
        [type |-> type, table |-> t, date |-> date, row_count |-> rows,
         file_size |-> rows * RowBytes, engine_type |-> tb[t].engine_type,
         index_file_size |-> tb[t].index_file_size, age |-> 0]]

\* UpdateTableFile / UpdateTableFiles: the records given replace the stored ones,
\* all in one transition; a record whose file is gone updates nothing.
UpdateTableFiles(fs, upd) ==
    [f \in FileIds |->
        IF f \in DOMAIN upd /\ Live(fs, f)
        THEN [upd[f] EXCEPT !.age = 0]
        ELSE fs[f]]

\* UpdateTableFilesToIndex(table_id): RAW -> TO_INDEX.
UpdateTableFilesToIndex(fs, t) ==
    [f \in FileIds |->
        IF fs[f].table = t /\ fs[f].type = "RAW"
        THEN [fs[f] EXCEPT !.type = "TO_INDEX"] ELSE fs[f]]

\* FilesByType(table_id, states) -> file ids.
FilesByType(fs, t, types) ==
    {f \in FileIds : fs[f].table = t /\ fs[f].type \in types}

\* FilesToMerge(table_id) -> date -> files: the RAW files of the table, by date.
MergeDates(fs, t) == {fs[f].date : f \in FilesByType(fs, t, {"RAW"})}

FilesToMerge(fs, t) ==
    [d \in MergeDates(fs, t) |->
        SortedSeq({f \in FilesByType(fs, t, {"RAW"}) : fs[f].date = d})]

\* FilesToIndex() -> files: every TO_INDEX file.
FilesToIndex(fs) == SortedSeq({f \in FileIds : fs[f].type = "TO_INDEX"})

\* FilesToSearch(table_id, ids, dates) -> date -> files, flattened in enumeration order.
Searchable == {"RAW", "TO_INDEX", "INDEX"}

FilesToSearch(fs, t, ids, dates) ==
    SortedSeq({f \in FileIds : /\ fs[f].table = t
                               /\ fs[f].type \in Searchable
                               /\ fs[f].date \in dates
                               /\ (ids = {} \/ f \in ids)})

\* Marking files TO_DELETE (DropPartitionsByDates, the DeleteJob, DropTableIndex).
MarkToDelete(fs, S) ==
    [f \in FileIds |->
        IF f \in S /\ Live(fs, f) /\ fs[f].type # "TO_DELETE"
        THEN [fs[f] EXCEPT !.type = "TO_DELETE", !.age = 0] ELSE fs[f]]

DropPartitionsByDates(fs, t, dates) ==
    MarkToDelete(fs, {f \in FileIds : fs[f].table = t /\ fs[f].date \in dates})

DeleteTableFiles(fs, t) == MarkToDelete(fs, {f \in FileIds : fs[f].table = t})

\* DropTableIndex(table_id): the index files are dropped and the TableIndex cleared.
DropTableIndexFiles(fs, t) == MarkToDelete(fs, FilesByType(fs, t, {"INDEX"}))

DropTableIndex(tb, t) ==
    [tb EXCEPT ![t].engine_type = "IDMAP", ![t].nlist = 0]

\* UpdateTableIndex(table_id, index).
UpdateTableIndex(tb, t, index) ==
    [tb EXCEPT ![t].engine_type = index.engine_type,
               ![t].metric_type = index.metric_type,
               ![t].nlist = index.nlist]

DescribeTableIndex(tb, t) ==
    [engine_type |-> tb[t].engine_type, metric_type |-> tb[t].metric_type,
     nlist |-> tb[t].nlist]

\* CleanUpFilesWithTTL(ttl): TO_DELETE files marked at least ttl ago are removed.
\* A file's age counts the TTL periods it has been TO_DELETE for: 1 is five
\* minutes, 2 is one day.
CleanUpFilesWithTTL(fs, ttl) ==
    [f \in FileIds |->
        IF fs[f].type = "TO_DELETE" /\ fs[f].age >= ttl THEN GoneFile ELSE fs[f]]

\* utils::IsSameIndex
IsSameIndex(a, b) ==
    a.engine_type = b.engine_type /\ a.nlist = b.nlist /\ a.metric_type = b.metric_type

AllReady(results) == \A i \in 1 .. Len(results) : results[i].st = "ready"

(***************************************************************************)
(* The state after construction: DBImpl::DBImpl sets shutting_down_ and    *)
(* calls Start(), which clears it and spawns the timer thread unless the   *)
(* mode is CLUSTER_READONLY.  One table exists and holds no file.          *)
(***************************************************************************)
NLists == {16, 32}
Metrics == {"L2", "IP"}

NoMerge == [status |-> "none", target |-> 0, files |-> <<>>, consumed |-> <<>>]
IdleCw == [pc |-> "idle", ids |-> {}, table |-> "", groups |-> <<>>,
           target |-> 0, files |-> <<>>]
IdleIw == [pc |-> "idle", job |-> <<>>]
IdleCi == [pc |-> "idle", table |-> "", index |-> [engine_type |-> "IDMAP",
           metric_type |-> "L2", nlist |-> 0], new_index |-> [engine_type |-> "IDMAP",
           metric_type |-> "L2", nlist |-> 0], file_ids |-> {}, poll |-> "none",
           stopped |-> FALSE, status |-> "none", dropped |-> FALSE, left |-> 0]
Ret(op, stopped, status, value) ==
    [op |-> op, stopped |-> stopped, status |-> status, value |-> value]
NoJob == [k |-> 0, nq |-> 0, nprobe |-> 0, files |-> <<>>]
CacheCapacity == 2 * RowBytes      \* CpuCacheMgr::CacheCapacity()
NoRet == Ret("none", FALSE, "none", <<>>)

\* sizes: the index_file_size values, in MB, the table may have been created with.
InitSized(modes, engines, sizes, lifeCalls, inserts, indexCalls, deletes, apiCalls) ==
    /\ mode \in modes
    /\ shutting_down = FALSE
    /\ today = 1
    /\ bg_timer_thread = (mode # "CLUSTER_READONLY")
    /\ timer_pc = IF mode # "CLUSTER_READONLY" THEN "check" ELSE "none"
    /\ mem_serialize_mutex = "free"
    /\ compact_result_mutex = "free"
    /\ index_result_mutex = "free"
    /\ build_index_mutex = "free"
    /\ mem = [t \in Tables |-> 0]
    /\ temp_table_ids = [o \in {"timer", "ctl"} |-> {}]
    /\ compact_table_ids = {}
    /\ compact_thread_results = <<>>
    /\ index_thread_results = <<>>
    /\ cw = IdleCw
    /\ iw = IdleIw
    /\ merge_ret = NoMerge
    /\ \E e \in engines, size \in sizes :
         tables = [t \in Tables |->
                     [state |-> "ok", index_file_size |-> size * ONE_MB, flag |-> 0,
                      engine_type |-> e, metric_type |-> "L2", nlist |-> 16]]
    /\ files = [f \in FileIds |-> NoFile]
    /\ ctl = [pc |-> "idle", left |-> lifeCalls, call |-> "none", status |-> "none",
              cleanups |-> 0]
    /\ ins = [pc |-> "idle", table |-> "", left |-> inserts]
    /\ ci = [c \in Callers |-> [IdleCi EXCEPT !.left = indexCalls[c]]]
    /\ del = [pc |-> "idle", table |-> "", left |-> deletes]
    /\ ret = NoRet
    /\ api = [left |-> apiCalls]
    /\ cpu_cache = [capacity |-> CacheCapacity, usage |-> 0, loaded |-> {}]
    /\ search_job = NoJob

InitWith(modes, engines, lifeCalls, inserts, indexCalls, deletes, apiCalls) ==
    InitSized(modes, engines, {1}, lifeCalls, inserts, indexCalls, deletes, apiCalls)

IndexCalls(n1, n2) == [c \in Callers |-> IF c = "c1" THEN n1 ELSE n2]

Init == InitWith(Modes, Engines, MaxLifeCalls, MaxInserts,
                 IndexCalls(MaxIndexCalls, MaxIndexCalls), MaxDeletes, MaxApiCalls)

(***************************************************************************)
(* DBImpl::MemSerialize, run by thread o (the timer thread, or the thread  *)
(* in Stop).  Under mem_serialize_mutex_ the memory manager flushes every  *)
(* buffer to a NEW file, which becomes RAW when it is written; the tables  *)
(* flushed are then inserted into compact_table_ids_.                      *)
(***************************************************************************)
Flushable(tb, m) == {t \in Tables : m[t] > 0 /\ CanCreateTableFile(tb, files, t)}

RECURSIVE FlushAll(_, _, _, _)
FlushAll(tb, fs, m, ts) ==
    IF ts = {} THEN fs
    ELSE LET t == CHOOSE x \in ts : TRUE
         IN FlushAll(tb, CreateTableFile(tb, fs, t, "NEW", today, m[t]), m, ts \ {t})

MemSerializeFlush(o) ==
    /\ mem_serialize_mutex = "free"
    /\ mem_serialize_mutex' = o
    /\ LET ts == Flushable(tables, mem)
       IN /\ files' = FlushAll(tables, files, mem, ts)
          /\ mem' = [t \in Tables |-> IF t \in ts THEN 0 ELSE mem[t]]
          /\ temp_table_ids' = [temp_table_ids EXCEPT ![o] = ts]

InsertTableIds(ids, temp) == ids \cup temp

MemSerializeFinish(o) ==
    /\ mem_serialize_mutex = o
    /\ mem_serialize_mutex' = "free"
    /\ files' = [f \in FileIds |->
                    IF files[f].type = "NEW" /\ files[f].table \in temp_table_ids[o]
                    THEN [files[f] EXCEPT !.type = "RAW"] ELSE files[f]]
    /\ compact_table_ids' = InsertTableIds(compact_table_ids, temp_table_ids[o])
    /\ temp_table_ids' = [temp_table_ids EXCEPT ![o] = {}]
    /\ mem' = mem

(***************************************************************************)
(* DBImpl::Start and DBImpl::Stop, called one after the other by one       *)
(* thread.                                                                 *)
(***************************************************************************)
SpawnsTimer(m) == m # "CLUSTER_READONLY"

Start ==
    /\ ctl.pc = "idle" /\ ctl.left > 0
    /\ ctl' = [ctl EXCEPT !.left = @ - 1, !.call = "Start", !.status = "OK"]
    /\ IF ~shutting_down
       THEN UNCHANGED <<shutting_down, bg_timer_thread, timer_pc>>
       ELSE /\ shutting_down' = FALSE
            /\ IF SpawnsTimer(mode)
               THEN bg_timer_thread' = TRUE /\ timer_pc' = "check"
               ELSE UNCHANGED <<bg_timer_thread, timer_pc>>
    /\ UNCHANGED <<apiVars, mode, today, mutexVars, memVars, poolVars, metaVars, ins, ci, del, ret>>

StopBegin ==
    /\ ctl.pc = "idle" /\ ctl.left > 0
    /\ IF shutting_down
       THEN /\ ctl' = [ctl EXCEPT !.left = @ - 1, !.call = "Stop", !.status = "OK"]
            /\ UNCHANGED shutting_down
       ELSE /\ ctl' = [ctl EXCEPT !.left = @ - 1, !.call = "Stop", !.status = "none",
                                  !.pc = "stop_serialize"]
            /\ shutting_down' = TRUE
    /\ UNCHANGED <<apiVars, mode, today, bg_timer_thread, timer_pc, mutexVars, memVars, poolVars,
                   metaVars, ins, ci, del, ret>>

StopMemSerialize ==
    /\ ctl.pc = "stop_serialize"
    /\ MemSerializeFlush("ctl")
    /\ ctl' = [ctl EXCEPT !.pc = "stop_insert_ids"]
    /\ UNCHANGED <<apiVars, coordVars, compact_result_mutex, index_result_mutex, build_index_mutex,
                   compact_table_ids, poolVars, tables, ins, ci, del, ret>>

StopMemSerialized ==
    /\ ctl.pc = "stop_insert_ids"
    /\ MemSerializeFinish("ctl")
    /\ ctl' = [ctl EXCEPT !.pc = "stop_join"]
    /\ UNCHANGED <<apiVars, coordVars, compact_result_mutex, index_result_mutex, build_index_mutex,
                   poolVars, tables, ins, ci, del, ret>>

\* bg_timer_thread_.join(): std::system_error when the thread is not joinable.
JoinThrows(joinable) == ~joinable

StopJoin ==
    /\ ctl.pc = "stop_join"
    /\ IF JoinThrows(bg_timer_thread)
       THEN /\ ctl' = [ctl EXCEPT !.pc = "idle", !.status = "system_error"]
            /\ UNCHANGED bg_timer_thread
       ELSE /\ timer_pc = "exited"
            /\ bg_timer_thread' = FALSE
            /\ ctl' = [ctl EXCEPT !.pc = "stop_cleanup"]
    /\ UNCHANGED <<apiVars, mode, shutting_down, today, timer_pc, mutexVars, memVars, poolVars,
                   metaVars, ins, ci, del, ret>>

\* meta_ptr_->CleanUp() is called unless the mode is CLUSTER_READONLY; ctl.cleanups
\* tells whether it has been called.
CallsCleanUp(m) == m # "CLUSTER_READONLY"

StopCleanUp ==
    /\ ctl.pc = "stop_cleanup"
    /\ ctl' = [ctl EXCEPT !.pc = "idle", !.status = "OK",
                          !.cleanups = IF CallsCleanUp(mode) THEN 1 ELSE @]
    /\ UNCHANGED <<apiVars, coordVars, mutexVars, memVars, poolVars, metaVars, ins, ci, del, ret>>

(***************************************************************************)
(* DBImpl::InsertVectors: the shutdown check, then the memory manager.     *)
(***************************************************************************)
ShutdownError == "ShuttingDown"

InsertChecksShutdown == TRUE

InsertBegin(t) ==
    /\ ins.pc = "idle" /\ ins.left > 0
    /\ IF InsertChecksShutdown /\ shutting_down
       THEN /\ ins' = [ins EXCEPT !.left = @ - 1]
            /\ ret' = Ret("InsertVectors", TRUE, ShutdownError, <<>>)
       ELSE /\ ins' = [ins EXCEPT !.left = @ - 1, !.pc = "mem", !.table = t]
            /\ ret' = ret
    /\ UNCHANGED <<apiVars, coordVars, mutexVars, memVars, poolVars, metaVars, ctl, ci, del>>

InsertMem ==
    /\ ins.pc = "mem"
    /\ ins' = [ins EXCEPT !.pc = "idle"]
    /\ IF TableExists(tables, ins.table)
       THEN /\ mem' = [mem EXCEPT ![ins.table] = @ + 1]
            /\ ret' = Ret("InsertVectors", FALSE, "OK", <<>>)
       ELSE /\ mem' = mem
            /\ ret' = Ret("InsertVectors", FALSE, "NotFound", <<>>)
    /\ UNCHANGED <<apiVars, coordVars, mutexVars, temp_table_ids, compact_table_ids, poolVars,
                   metaVars, ctl, ci, del>>

(***************************************************************************)
(* DBImpl::BackgroundTimerTask: the timer thread.  Each tick runs          *)
(* StartMetricTask (which changes nothing here), StartCompactionTask and   *)
(* StartBuildIndexTask; once shutting_down_ is seen it waits for the       *)
(* futures of both pools and exits.                                        *)
(***************************************************************************)
\* A check that finds shutting_down_ clear whatever it is (mutant of SeesShutdown).
SeesNoShutdown(down) == FALSE

\* if (shutting_down_.load(std::memory_order_acquire)), at the top of the loop.
SeesShutdown(down) == down

TimerCheck ==
    /\ timer_pc = "check"
    /\ timer_pc' = IF SeesShutdown(shutting_down) THEN "wait_merge" ELSE "serialize"
    /\ UNCHANGED <<apiVars, mode, shutting_down, today, bg_timer_thread, mutexVars, memVars,
                   poolVars, metaVars, callerVars>>

TimerMemSerialize ==
    /\ timer_pc = "serialize"
    /\ MemSerializeFlush("timer")
    /\ timer_pc' = "insert_ids"
    /\ UNCHANGED <<apiVars, mode, shutting_down, today, bg_timer_thread, compact_result_mutex,
                   index_result_mutex, build_index_mutex, compact_table_ids, poolVars,
                   tables, callerVars>>

TimerMemSerialized ==
    /\ timer_pc = "insert_ids"
    /\ MemSerializeFinish("timer")
    /\ timer_pc' = "compaction"
    /\ UNCHANGED <<apiVars, mode, shutting_down, today, bg_timer_thread, compact_result_mutex,
                   index_result_mutex, build_index_mutex, poolVars, tables, callerVars>>

\* if (results.back().wait_for(10ms) == ready) results.pop_back();
Reap(results) ==
    IF results # <<>> /\ results[Len(results)].st = "ready"
    THEN SubSeq(results, 1, Len(results) - 1) ELSE results

\* A task enqueued whatever the list holds (mutant of MayEnqueue).
MayEnqueueAlways(results) == TRUE

\* if (results.empty()) results.push_back(pool.enqueue(...));
MayEnqueue(results) == results = <<>>

\* StartCompactionTask after MemSerialize: the finished future is reaped and, if
\* none is left, BackgroundCompaction is enqueued with a copy of compact_table_ids_.
TimerCompaction ==
    /\ timer_pc = "compaction"
    /\ compact_result_mutex = "free"
    /\ LET reaped == Reap(compact_thread_results)
       IN IF MayEnqueue(reaped)
          THEN /\ compact_thread_results' =
                      Append(reaped, [ids |-> compact_table_ids, st |-> "queued"])
               /\ compact_result_mutex' = "timer"
               /\ timer_pc' = "clear"
          ELSE /\ compact_thread_results' = reaped
               /\ compact_result_mutex' = compact_result_mutex
               /\ timer_pc' = "build_index"
    /\ UNCHANGED <<apiVars, mode, shutting_down, today, bg_timer_thread, mem_serialize_mutex,
                   index_result_mutex, build_index_mutex, memVars, index_thread_results,
                   cw, iw, merge_ret, metaVars, callerVars>>

\* compact_table_ids_.clear(), still under compact_result_mutex_.
TimerClear ==
    /\ timer_pc = "clear"
    /\ compact_table_ids' = {}
    /\ compact_result_mutex' = "free"
    /\ timer_pc' = "build_index"
    /\ UNCHANGED <<apiVars, mode, shutting_down, today, bg_timer_thread, mem_serialize_mutex,
                   index_result_mutex, build_index_mutex, mem, temp_table_ids, poolVars,
                   metaVars, callerVars>>

\* StartBuildIndexTask.
TimerBuildIndex ==
    /\ timer_pc = "build_index"
    /\ index_result_mutex = "free"
    /\ LET reaped == Reap(index_thread_results)
       IN index_thread_results' =
              IF MayEnqueue(reaped) THEN Append(reaped, [st |-> "queued"]) ELSE reaped
    /\ timer_pc' = "check"
    /\ UNCHANGED <<apiVars, mode, shutting_down, today, bg_timer_thread, mutexVars, memVars,
                   compact_thread_results, cw, iw, merge_ret, metaVars, callerVars>>

\* A wait that does not wait (mutant of WaitDone).
WaitSkipped(results) == TRUE

\* WaitMergeFileFinish / WaitBuildIndexFinish: every future of the list is waited for.
WaitDone(results) == AllReady(results)

TimerWaitMergeLock ==
    /\ timer_pc = "wait_merge"
    /\ compact_result_mutex = "free"
    /\ compact_result_mutex' = "timer"
    /\ timer_pc' = "wait_merge_locked"
    /\ UNCHANGED <<apiVars, mode, shutting_down, today, bg_timer_thread, mem_serialize_mutex,
                   index_result_mutex, build_index_mutex, memVars, poolVars, metaVars,
                   callerVars>>

TimerWaitMerge ==
    /\ timer_pc = "wait_merge_locked"
    /\ WaitDone(compact_thread_results)
    /\ compact_result_mutex' = "free"
    /\ timer_pc' = "wait_build"
    /\ UNCHANGED <<apiVars, mode, shutting_down, today, bg_timer_thread, mem_serialize_mutex,
                   index_result_mutex, build_index_mutex, memVars, poolVars, metaVars,
                   callerVars>>

TimerWaitBuild ==
    /\ timer_pc = "wait_build"
    /\ index_result_mutex = "free"
    /\ WaitDone(index_thread_results)
    /\ timer_pc' = "exited"
    /\ UNCHANGED <<apiVars, mode, shutting_down, today, bg_timer_thread, mutexVars, memVars,
                   poolVars, metaVars, callerVars>>

(***************************************************************************)
(* The compaction pool's thread: DBImpl::BackgroundCompaction with         *)
(* BackgroundMergeFiles and MergeFiles.                                    *)
(***************************************************************************)
FirstQueued(results) == Min({i \in 1 .. Len(results) : results[i].st = "queued"})
HasQueued(results) == \E i \in 1 .. Len(results) : results[i].st = "queued"
Running(results) == CHOOSE i \in 1 .. Len(results) : results[i].st = "running"

FirstTable(ids) == TableOrder[Min({i \in 1 .. Len(TableOrder) : TableOrder[i] \in ids})]

\* The date groups of FilesToMerge, in date order.
MergeGroups(fs, t) ==
    LET m == FilesToMerge(fs, t)
        ds == SortedSeq(DOMAIN m)
    IN [i \in 1 .. Len(ds) |-> [date |-> ds[i], files |-> m[ds[i]]]]

\* ttl of CleanUpFilesWithTTL: 5 * M_SEC, or D_SEC in CLUSTER_WRITABLE mode.
FiveMinutes == 1
OneDay == 2
TTL(m) == IF m = "CLUSTER_WRITABLE" THEN OneDay ELSE FiveMinutes

CwStart ==
    /\ cw.pc = "idle"
    /\ HasQueued(compact_thread_results)
    /\ LET i == FirstQueued(compact_thread_results)
       IN /\ compact_thread_results' = [compact_thread_results EXCEPT ![i].st = "running"]
          /\ cw' = [IdleCw EXCEPT !.pc = "next_table", !.ids = compact_thread_results[i].ids]
    /\ merge_ret' = NoMerge
    /\ UNCHANGED <<apiVars, coordVars, mutexVars, memVars, index_thread_results, iw, metaVars,
                   callerVars>>

\* BackgroundCompaction's loop over table_ids; BackgroundMergeFiles reads FilesToMerge.
CwNextTable ==
    /\ cw.pc = "next_table"
    /\ IF cw.ids = {}
       THEN cw' = [cw EXCEPT !.pc = "archive"]
       ELSE LET t == FirstTable(cw.ids)
            IN IF TableExists(tables, t)
               THEN cw' = [cw EXCEPT !.pc = "next_group", !.table = t, !.ids = @ \ {t},
                                     !.groups = MergeGroups(files, t)]
               ELSE cw' = [cw EXCEPT !.ids = @ \ {t},
                                     !.pc = IF shutting_down THEN "archive" ELSE "next_table"]
    /\ merge_ret' = NoMerge
    /\ UNCHANGED <<apiVars, coordVars, mutexVars, memVars, compact_thread_results,
                   index_thread_results, iw, metaVars, callerVars>>

\* A loop that goes on whatever shutting_down_ is (mutant of StopsMerging).
StopsMergingNever(down) == FALSE

\* After MergeFiles returns: the shutdown checks of BackgroundMergeFiles and of
\* BackgroundCompaction.
StopsMerging(down) == down

AfterMerge(c) ==
    IF StopsMerging(shutting_down)
    THEN [c EXCEPT !.pc = "archive", !.groups = <<>>, !.target = 0, !.files = <<>>]
    ELSE [c EXCEPT !.pc = "next_group", !.groups = Tail(@), !.target = 0, !.files = <<>>]

Triggers(group) == Len(group.files) >= merge_trigger_number

\* BackgroundMergeFiles' loop over the date groups; MergeFiles step 1 creates the
\* NEW_MERGE target.
CwNextGroup ==
    /\ cw.pc = "next_group"
    /\ IF cw.groups = <<>>
       THEN /\ cw' = [cw EXCEPT !.pc = IF shutting_down THEN "archive" ELSE "next_table"]
            /\ UNCHANGED <<files, merge_ret>>
       ELSE LET g == Head(cw.groups)
            IN IF ~Triggers(g)
               THEN /\ cw' = [cw EXCEPT !.groups = Tail(@)]
                    /\ UNCHANGED <<files, merge_ret>>
               ELSE IF CanCreateTableFile(tables, files, cw.table)
                    THEN /\ files' = CreateTableFile(tables, files, cw.table, "NEW_MERGE",
                                                     g.date, 0)
                         /\ cw' = [cw EXCEPT !.pc = "merge", !.target = NextFileId(files),
                                             !.files = g.files]
                         /\ merge_ret' = NoMerge
                    ELSE /\ files' = files
                         /\ cw' = AfterMerge(cw)
                         /\ merge_ret' = [status |-> "MetaError", target |-> 0,
                                          files |-> g.files, consumed |-> <<>>]
    /\ UNCHANGED <<apiVars, coordVars, mutexVars, memVars, compact_thread_results,
                   index_thread_results, iw, tables, callerVars>>

\* MergeFiles step 2: the files are merged in order until the engine's size reaches
\* the file's index_file_size_.
RECURSIVE MergeLoop(_, _, _)
MergeLoop(fs, s, size) ==
    IF s = <<>> THEN <<>>
    ELSE LET index_size == size + fs[Head(s)].file_size
         IN IF index_size >= fs[Head(s)].index_file_size
            THEN <<Head(s)>>
            ELSE <<Head(s)>> \o MergeLoop(fs, Tail(s), index_size)

\* A target that is TO_INDEX only above index_file_size_ (mutant of TargetType).
TargetTypeAbove(engine_type, physical_size, index_file_size) ==
    IF engine_type # "IDMAP"
    THEN (IF physical_size > index_file_size THEN "TO_INDEX" ELSE "RAW")
    ELSE "RAW"

\* MergeFiles step 4: the target's file type.
TargetType(engine_type, physical_size, index_file_size) ==
    IF engine_type # "IDMAP"
    THEN (IF physical_size >= index_file_size THEN "TO_INDEX" ELSE "RAW")
    ELSE "RAW"

\* A batch whose target counts the rows of the last file merged only (mutant of
\* MergeBatch).
MergeBatchLastCount(fs, target, consumed) ==
    LET rows == SumRows(fs, consumed)
        size == rows * RowBytes
    IN [f \in Range(consumed) \cup {target} |->
          IF f = target
          THEN [fs[target] EXCEPT
                  !.type = TargetType(fs[target].engine_type, size,
                                      fs[target].index_file_size),
                  !.file_size = size,
                  !.row_count = fs[consumed[Len(consumed)]].row_count]
          ELSE [fs[f] EXCEPT !.type = "TO_DELETE"]]

\* A batch that holds the target and not the files merged (mutant of MergeBatch).
MergeBatchTargetOnly(fs, target, consumed) ==
    LET rows == SumRows(fs, consumed)
        size == rows * RowBytes
    IN [f \in {target} |->
          [fs[target] EXCEPT
              !.type = TargetType(fs[target].engine_type, size,
                                  fs[target].index_file_size),
              !.file_size = size, !.row_count = rows]]

\* MergeFiles step 4: the batch given to UpdateTableFiles, the consumed files as
\* TO_DELETE and the target with its type, size and row count.
MergeBatch(fs, target, consumed) ==
    LET rows == SumRows(fs, consumed)
        size == rows * RowBytes
    IN [f \in Range(consumed) \cup {target} |->
          IF f = target
          THEN [fs[target] EXCEPT
                  !.type = TargetType(fs[target].engine_type, size,
                                      fs[target].index_file_size),
                  !.file_size = size, !.row_count = rows]
          ELSE [fs[f] EXCEPT !.type = "TO_DELETE"]]

\* MergeFiles step 3 when Serialize throws: the target is marked TO_DELETE.
MergeFailed(fs, target) ==
    [f \in {target} |-> [fs[target] EXCEPT !.type = "TO_DELETE"]]

\* MergeFiles steps 2 to 4: merge, Serialize, and the commit; MergeFiles returns
\* with the status outcome: OK, MetaError when UpdateTableFiles fails, DBError when
\* Serialize throws.
CwMergeStep(outcome) ==
    /\ cw.pc = "merge"
    /\ LET consumed == MergeLoop(files, cw.files, 0)
       IN /\ files' = CASE outcome = "OK" ->
                               UpdateTableFiles(files, MergeBatch(files, cw.target, consumed))
                        [] outcome = "MetaError" -> files
                        [] outcome = "DBError" ->
                               UpdateTableFiles(files, MergeFailed(files, cw.target))
          /\ merge_ret' = [status |-> outcome, target |-> cw.target, files |-> cw.files,
                           consumed |-> consumed]
    /\ cw' = AfterMerge(cw)
    /\ UNCHANGED <<apiVars, coordVars, mutexVars, memVars, compact_thread_results,
                   index_thread_results, iw, tables, callerVars>>

CwMerge == \E outcome \in {"OK", "MetaError", "DBError"} : CwMergeStep(outcome)

\* meta_ptr_->Archive(); meta_ptr_->CleanUpFilesWithTTL(ttl); the task ends.
CwArchive ==
    /\ cw.pc = "archive"
    /\ files' = CleanUpFilesWithTTL(files, TTL(mode))
    /\ compact_thread_results' =
          [compact_thread_results EXCEPT ![Running(compact_thread_results)].st = "ready"]
    /\ cw' = IdleCw
    /\ merge_ret' = NoMerge
    /\ UNCHANGED <<apiVars, coordVars, mutexVars, memVars, index_thread_results, iw, tables,
                   callerVars>>

\* The date changes: the files created from now on belong to the next date.
DayPasses ==
    /\ today + 1 \in Dates
    /\ today' = today + 1
    /\ UNCHANGED <<apiVars, mode, shutting_down, bg_timer_thread, timer_pc, mutexVars, memVars,
                   poolVars, metaVars, callerVars>>

\* Time passes: every TO_DELETE file younger than the ttl gets one TTL period older.
TimePasses ==
    /\ \E f \in FileIds : files[f].type = "TO_DELETE" /\ files[f].age < TTL(mode)
    /\ files' = [f \in FileIds |->
                    IF files[f].type = "TO_DELETE" /\ files[f].age < TTL(mode)
                    THEN [files[f] EXCEPT !.age = @ + 1] ELSE files[f]]
    /\ UNCHANGED <<apiVars, coordVars, mutexVars, memVars, poolVars, tables, callerVars>>

(***************************************************************************)
(* The index pool's thread: DBImpl::BackgroundBuildIndex.  The scheduler's *)
(* BuildIndexJob takes each file TO_INDEX -> NEW_INDEX -> INDEX.           *)
(***************************************************************************)
IwStart ==
    /\ iw.pc = "idle"
    /\ HasQueued(index_thread_results)
    /\ index_thread_results' =
          [index_thread_results EXCEPT ![FirstQueued(index_thread_results)].st = "running"]
    /\ iw' = [iw EXCEPT !.pc = "lock"]
    /\ UNCHANGED <<apiVars, coordVars, mutexVars, memVars, compact_thread_results, cw, merge_ret,
                   metaVars, callerVars>>

IwFinished == [index_thread_results EXCEPT ![Running(index_thread_results)].st = "ready"]

\* std::unique_lock lock(build_index_mutex_); meta_ptr_->FilesToIndex(to_index_files);
IwLock ==
    /\ iw.pc = "lock"
    /\ build_index_mutex = "free"
    /\ LET job == FilesToIndex(files)
       IN IF job = <<>>
          THEN /\ iw' = IdleIw
               /\ index_thread_results' = IwFinished
               /\ build_index_mutex' = build_index_mutex
          ELSE /\ iw' = [pc |-> "build", job |-> job]
               /\ index_thread_results' = index_thread_results
               /\ build_index_mutex' = "iw"
    /\ UNCHANGED <<apiVars, coordVars, mem_serialize_mutex, compact_result_mutex,
                   index_result_mutex, memVars, compact_thread_results, cw, merge_ret,
                   metaVars, callerVars>>

\* The job's next file is done with: the job is over after the last one.
IwNext ==
    IF Len(iw.job) > 1
    THEN /\ iw' = [pc |-> "build", job |-> Tail(iw.job)]
         /\ UNCHANGED <<index_thread_results, build_index_mutex>>
    ELSE /\ iw' = IdleIw
         /\ index_thread_results' = IwFinished
         /\ build_index_mutex' = "free"

\* The scheduler starts on a file: TO_INDEX -> NEW_INDEX.
IwBuildFile ==
    /\ iw.pc = "build"
    /\ LET f == Head(iw.job)
       IN /\ files[f].type = "TO_INDEX"
          /\ files' = [files EXCEPT ![f].type = "NEW_INDEX",
                                    ![f].engine_type = tables[files[f].table].engine_type]
    /\ iw' = [iw EXCEPT !.pc = "built"]
    /\ UNCHANGED <<apiVars, coordVars, mutexVars, memVars, compact_thread_results,
                   index_thread_results, cw, merge_ret, tables, callerVars>>

\* The scheduler fails on a file, or finds it no longer TO_INDEX, and leaves it as
\* it is.
IwBuildFails ==
    /\ iw.pc = "build"
    /\ files' = files
    /\ IwNext
    /\ UNCHANGED <<apiVars, coordVars, mem_serialize_mutex, compact_result_mutex,
                   index_result_mutex, memVars, compact_thread_results, cw, merge_ret,
                   tables, callerVars>>

IwBuild == IwBuildFile \/ IwBuildFails

\* The scheduler finishes a file: NEW_INDEX -> INDEX.
IwBuilt ==
    /\ iw.pc = "built"
    /\ LET f == Head(iw.job)
       IN files' = IF files[f].type = "NEW_INDEX"
                   THEN [files EXCEPT ![f].type = "INDEX"] ELSE files
    /\ IwNext
    /\ UNCHANGED <<apiVars, coordVars, mem_serialize_mutex, compact_result_mutex,
                   index_result_mutex, memVars, compact_thread_results, cw, merge_ret,
                   tables, callerVars>>

(***************************************************************************)
(* DBImpl::CreateIndex(table_id, index), called by thread c.               *)
(***************************************************************************)
\* step 4: the file types CreateIndex waits for, chosen by index.engine_type_.
Watched(engine_type) ==
    IF engine_type = "IDMAP"
    THEN {"NEW", "NEW_MERGE"}
    ELSE {"RAW", "NEW", "NEW_MERGE", "NEW_INDEX", "TO_INDEX"}

CiReturn(c, status, poll) ==
    /\ ci' = [ci EXCEPT ![c].pc = "idle", ![c].status = status, ![c].poll = poll,
                        ![c].file_ids = {}]
    /\ ret' = Ret("CreateIndex", ci[c].stopped, status, <<>>)

\* An index that is dropped and persisted whatever the stored one is (mutant of
\* ChangesIndex).
ChangesIndexAlways(old_index, new_index) == TRUE

\* if (!utils::IsSameIndex(old_index, new_index))
ChangesIndex(old_index, new_index) == ~IsSameIndex(old_index, new_index)

\* The index asked for, taken as it is (mutant of NewIndex).
NewIndexAsAsked(index, old_index) == index

\* TableIndex new_index = index; new_index.metric_type_ = old_index.metric_type_;
NewIndex(index, old_index) == [index EXCEPT !.metric_type = old_index.metric_type]

\* A lock granted whoever holds the mutex (mutant of CiAcquires).
CiAcquiresHeld(mutex) == TRUE

\* std::unique_lock<std::mutex> lock(build_index_mutex_): granted once the mutex
\* is free.
CiAcquires(mutex) == mutex = "free"

\* steps 1 and 2, under build_index_mutex_: DescribeIndex, and the comparison of the
\* index asked for (with the stored metric type) with the stored one.
CiBegin(c, t, index) ==
    /\ ci[c].pc = "idle" /\ ci[c].left > 0
    /\ CiAcquires(build_index_mutex)
    /\ IF ~TableExists(tables, t)
       THEN /\ ci' = [ci EXCEPT ![c] = [IdleCi EXCEPT !.left = ci[c].left - 1,
                                          !.table = t, !.index = index,
                                          !.stopped = shutting_down,
                                          !.status = "NotFound"]]
            /\ ret' = Ret("CreateIndex", shutting_down, "NotFound", <<>>)
            /\ UNCHANGED build_index_mutex
       ELSE LET old_index == DescribeTableIndex(tables, t)
                new_index == NewIndex(index, old_index)
                same == ~ChangesIndex(old_index, new_index)
            IN /\ ci' = [ci EXCEPT ![c] = [IdleCi EXCEPT !.left = ci[c].left - 1,
                                             !.table = t, !.index = index,
                                             !.new_index = new_index,
                                             !.stopped = shutting_down,
                                             !.pc = IF same THEN "wait_merge" ELSE "drop"]]
               /\ build_index_mutex' = IF same THEN "free" ELSE c
               /\ ret' = ret
    /\ UNCHANGED <<apiVars, coordVars, mem_serialize_mutex, compact_result_mutex,
                   index_result_mutex, memVars, poolVars, metaVars, ctl, ins, del>>

\* DropIndex(table_id)
CiDrop(c) ==
    /\ ci[c].pc = "drop"
    /\ tables' = DropTableIndex(tables, ci[c].table)
    /\ files' = DropTableIndexFiles(files, ci[c].table)
    /\ ci' = [ci EXCEPT ![c].pc = "update", ![c].dropped = TRUE]
    /\ UNCHANGED <<apiVars, coordVars, mutexVars, memVars, poolVars, ctl, ins, del, ret>>

\* A lock that outlives its block (mutant of CiUnlocked).
CiStillLocked(c) == c

\* The end of the block of CreateIndex that holds build_index_mutex_: the
\* unique_lock is destroyed and the mutex is free.
CiUnlocked(c) == "free"

\* meta_ptr_->UpdateTableIndex(table_id, new_index); the lock is released.
CiUpdate(c) ==
    /\ ci[c].pc = "update"
    /\ build_index_mutex' = CiUnlocked(c)
    /\ IF TableExists(tables, ci[c].table)
       THEN /\ tables' = UpdateTableIndex(tables, ci[c].table, ci[c].new_index)
            /\ ci' = [ci EXCEPT ![c].pc = "wait_merge"]
            /\ ret' = ret
       ELSE /\ tables' = tables
            /\ CiReturn(c, "NotFound", "none")
    /\ UNCHANGED <<apiVars, coordVars, mem_serialize_mutex, compact_result_mutex,
                   index_result_mutex, memVars, poolVars, files, ctl, ins, del>>

\* step 3: WaitMergeFileFinish()
CiWaitMergeLock(c) ==
    /\ ci[c].pc = "wait_merge"
    /\ compact_result_mutex = "free"
    /\ compact_result_mutex' = c
    /\ ci' = [ci EXCEPT ![c].pc = "wait_merge_locked"]
    /\ UNCHANGED <<apiVars, coordVars, mem_serialize_mutex, index_result_mutex, build_index_mutex,
                   memVars, poolVars, metaVars, ctl, ins, del, ret>>

CiWaitMerge(c) ==
    /\ ci[c].pc = "wait_merge_locked"
    /\ WaitDone(compact_thread_results)
    /\ compact_result_mutex' = "free"
    /\ ci' = [ci EXCEPT ![c].pc = "poll"]
    /\ UNCHANGED <<apiVars, coordVars, mem_serialize_mutex, index_result_mutex, build_index_mutex,
                   memVars, poolVars, metaVars, ctl, ins, del, ret>>

\* The loop's test after a FilesByType call: CreateIndex returns OK once file_ids
\* is empty; the call's status is not looked at.
PollEnds(file_ids, poll_ok) == file_ids = {}

\* step 4: status = meta_ptr_->FilesByType(table_id, file_types, file_ids).  A call
\* that fails (poll_ok is FALSE) leaves file_ids as it was.
CiPollStep(c, poll_ok) ==
    /\ ci[c].pc = "poll"
    /\ LET file_ids == IF poll_ok
                       THEN FilesByType(files, ci[c].table,
                                        Watched(ci[c].index.engine_type))
                       ELSE ci[c].file_ids
       IN IF PollEnds(file_ids, poll_ok)
          THEN CiReturn(c, "OK", IF poll_ok THEN "ok" ELSE "failed")
          ELSE /\ ci' = [ci EXCEPT ![c].pc = "remark", ![c].file_ids = file_ids]
               /\ ret' = ret
    /\ UNCHANGED <<apiVars, coordVars, mutexVars, memVars, poolVars, metaVars, ctl, ins, del>>

CiPoll(c) == \E poll_ok \in BOOLEAN : CiPollStep(c, poll_ok)

\* A loop that re-marks no file (mutant of Remarks).
RemarksNever(engine_type) == FALSE

\* In the loop: for an engine other than IDMAP, UpdateTableFilesToIndex(table_id);
\* then the sleep.
Remarks(engine_type) == engine_type # "IDMAP"

CiRemark(c) ==
    /\ ci[c].pc = "remark"
    /\ files' = IF Remarks(ci[c].index.engine_type)
                THEN UpdateTableFilesToIndex(files, ci[c].table) ELSE files
    /\ ci' = [ci EXCEPT ![c].pc = "poll"]
    /\ UNCHANGED <<apiVars, coordVars, mutexVars, memVars, poolVars, tables, ctl, ins, del, ret>>

(***************************************************************************)
(* DBImpl::DeleteTable(table_id, dates).                                   *)
(***************************************************************************)
DeleteTableBegin(t, dates) ==
    /\ del.pc = "idle" /\ del.left > 0
    /\ IF shutting_down
       THEN /\ del' = [del EXCEPT !.left = @ - 1]
            /\ ret' = Ret("DeleteTable", TRUE, ShutdownError, <<>>)
            /\ UNCHANGED <<mem, tables, files>>
       ELSE IF dates = {}
            THEN /\ mem' = [mem EXCEPT ![t] = 0]
                 /\ tables' = IF TableExists(tables, t)
                              THEN [tables EXCEPT ![t].state = "deleted"] ELSE tables
                 /\ del' = [del EXCEPT !.left = @ - 1, !.pc = "job", !.table = t]
                 /\ UNCHANGED <<files, ret>>
            ELSE /\ files' = DropPartitionsByDates(files, t, dates)
                 /\ del' = [del EXCEPT !.left = @ - 1, !.table = t]
                 /\ ret' = Ret("DeleteTable", FALSE, "OK", <<>>)
                 /\ UNCHANGED <<mem, tables>>
    /\ UNCHANGED <<apiVars, coordVars, mutexVars, temp_table_ids, compact_table_ids, poolVars,
                   ctl, ins, ci>>

\* The DeleteJob: the scheduler marks the table's files TO_DELETE; WaitAndDelete returns.
DeleteTableJob ==
    /\ del.pc = "job"
    /\ files' = DeleteTableFiles(files, del.table)
    /\ del' = [del EXCEPT !.pc = "idle"]
    /\ ret' = Ret("DeleteTable", FALSE, "OK", <<>>)
    /\ UNCHANGED <<apiVars, coordVars, mutexVars, memVars, poolVars, tables, ctl, ins, ci>>

(***************************************************************************)
(* The other public operations, each called by the thread api.  An         *)
(* operation that checks shutting_down_ returns the shutdown error before  *)
(* it does anything; DropAll, DescribeIndex and DropIndex have no check.   *)
(***************************************************************************)
ApiReturn(op, status, value) ==
    /\ api.left > 0
    /\ api' = [api EXCEPT !.left = @ - 1]
    /\ ret' = Ret(op, shutting_down, status, value)

\* DBImpl::DropAll: meta_ptr_->DropAll() wipes the metadata.
DropAll ==
    /\ ApiReturn("DropAll", "OK", <<>>)
    /\ tables' = [t \in Tables |-> NoTable]
    /\ files' = [f \in FileIds |-> IF Live(files, f) THEN GoneFile ELSE files[f]]
    /\ UNCHANGED <<coordVars, mutexVars, memVars, poolVars, ctl, ins, ci, del,
                   cpu_cache, search_job>>

\* The schemas CreateTable is called with; index_file_size is in MB.
Schemas == [index_file_size : {1, 2}, engine_type : {"IDMAP"}, metric_type : Metrics,
            nlist : {16}]

\* meta_ptr_->CreateTable(schema)
MetaCreateTable(tb, t, schema) ==
    [tb EXCEPT ![t] = [state |-> "ok", index_file_size |-> schema.index_file_size,
                       flag |-> 0, engine_type |-> schema.engine_type,
                       metric_type |-> schema.metric_type, nlist |-> schema.nlist]]

\* A schema stored with the size as the caller gave it (mutant of StoredSchema).
StoredSchemaAsGiven(schema) == schema

\* temp_schema = table_schema; temp_schema.index_file_size_ *= ONE_MB;
StoredSchema(schema) == [schema EXCEPT !.index_file_size = @ * ONE_MB]

\* DBImpl::CreateTable: the schema is copied and the copy is given to the store.  The
\* value returned to the model is the caller's schema object after the call.
CreateTable(t, schema) ==
    /\ IF shutting_down
       THEN /\ ApiReturn("CreateTable", ShutdownError, <<>>)
            /\ tables' = tables
       ELSE LET temp_schema == StoredSchema(schema)
            IN IF tables[t].state = "none"
               THEN /\ tables' = MetaCreateTable(tables, t, temp_schema)
                    /\ ApiReturn("CreateTable", "OK", schema)
               ELSE /\ tables' = tables
                    /\ ApiReturn("CreateTable",
                                 IF tables[t].state = "ok" THEN "AlreadyExists"
                                 ELSE "MetaError", <<>>)
    /\ UNCHANGED <<coordVars, mutexVars, memVars, poolVars, files, ctl, ins, ci, del,
                   cpu_cache, search_job>>

\* DBImpl::DescribeTable: table_schema.index_file_size_ /= ONE_MB.
DescribeTable(t) ==
    /\ IF shutting_down
       THEN ApiReturn("DescribeTable", ShutdownError, <<>>)
       ELSE IF TableExists(tables, t)
            THEN ApiReturn("DescribeTable", "OK",
                           [index_file_size |-> tables[t].index_file_size \div ONE_MB,
                            engine_type |-> tables[t].engine_type,
                            metric_type |-> tables[t].metric_type,
                            nlist |-> tables[t].nlist])
            ELSE ApiReturn("DescribeTable", "NotFound", <<>>)
    /\ UNCHANGED <<coordVars, mutexVars, memVars, poolVars, metaVars, ctl, ins, ci, del,
                   cpu_cache, search_job>>

\* DBImpl::HasTable
HasTable(t) ==
    /\ IF shutting_down
       THEN ApiReturn("HasTable", ShutdownError, <<>>)
       ELSE ApiReturn("HasTable", "OK", TableExists(tables, t))
    /\ UNCHANGED <<coordVars, mutexVars, memVars, poolVars, metaVars, ctl, ins, ci, del,
                   cpu_cache, search_job>>

\* DBImpl::AllTables
AllTables ==
    /\ IF shutting_down
       THEN ApiReturn("AllTables", ShutdownError, <<>>)
       ELSE ApiReturn("AllTables", "OK", {t \in Tables : TableExists(tables, t)})
    /\ UNCHANGED <<coordVars, mutexVars, memVars, poolVars, metaVars, ctl, ins, ci, del,
                   cpu_cache, search_job>>

\* DBImpl::UpdateTableFlag
UpdateTableFlag(t, flag) ==
    /\ IF shutting_down
       THEN /\ ApiReturn("UpdateTableFlag", ShutdownError, <<>>)
            /\ tables' = tables
       ELSE IF TableExists(tables, t)
            THEN /\ tables' = [tables EXCEPT ![t].flag = flag]
                 /\ ApiReturn("UpdateTableFlag", "OK", <<>>)
            ELSE /\ tables' = tables
                 /\ ApiReturn("UpdateTableFlag", "NotFound", <<>>)
    /\ UNCHANGED <<coordVars, mutexVars, memVars, poolVars, files, ctl, ins, ci, del,
                   cpu_cache, search_job>>

\* meta_ptr_->Count(table_id): the rows of the table's files that are not deleted.
Count(fs, t) ==
    SumRows(fs, SortedSeq(FilesByType(fs, t, {"RAW", "TO_INDEX", "INDEX"})))

\* DBImpl::GetTableRowCount
GetTableRowCount(t) ==
    /\ IF shutting_down
       THEN ApiReturn("GetTableRowCount", ShutdownError, <<>>)
       ELSE IF TableExists(tables, t)
            THEN ApiReturn("GetTableRowCount", "OK", Count(files, t))
            ELSE ApiReturn("GetTableRowCount", "NotFound", <<>>)
    /\ UNCHANGED <<coordVars, mutexVars, memVars, poolVars, metaVars, ctl, ins, ci, del,
                   cpu_cache, search_job>>

RECURSIVE SumSizes(_, _)
SumSizes(fs, S) ==
    IF S = {} THEN 0
    ELSE LET f == CHOOSE x \in S : TRUE IN fs[f].file_size + SumSizes(fs, S \ {f})

\* DBImpl::Size: meta_ptr_->Size(result)
Size ==
    /\ IF shutting_down
       THEN ApiReturn("Size", ShutdownError, <<>>)
       ELSE ApiReturn("Size", "OK",
                      SumSizes(files, {f \in FileIds : files[f].type \in Searchable}))
    /\ UNCHANGED <<coordVars, mutexVars, memVars, poolVars, metaVars, ctl, ins, ci, del,
                   cpu_cache, search_job>>

\* DBImpl::DescribeIndex: meta_ptr_->DescribeTableIndex(table_id, index).
DescribeIndex(t) ==
    /\ IF TableExists(tables, t)
       THEN ApiReturn("DescribeIndex", "OK", DescribeTableIndex(tables, t))
       ELSE ApiReturn("DescribeIndex", "NotFound", <<>>)
    /\ UNCHANGED <<coordVars, mutexVars, memVars, poolVars, metaVars, ctl, ins, ci, del,
                   cpu_cache, search_job>>

\* DBImpl::DropIndex: meta_ptr_->DropTableIndex(table_id).
DropIndex(t) ==
    /\ IF TableExists(tables, t)
       THEN /\ tables' = DropTableIndex(tables, t)
            /\ files' = DropTableIndexFiles(files, t)
            /\ ApiReturn("DropIndex", "OK", <<>>)
       ELSE /\ UNCHANGED <<tables, files>>
            /\ ApiReturn("DropIndex", "NotFound", <<>>)
    /\ UNCHANGED <<coordVars, mutexVars, memVars, poolVars, ctl, ins, ci, del,
                   cpu_cache, search_job>>

\* A loop that loads every file whatever its size (mutant of PreloadLoop).
PreloadLoopNoBudget(fs, s, size, available_size, fail) ==
    [status |-> "OK", loaded |-> Range(s)]

\* PreloadTable's loop: size += engine->PhysicalSize(); Cache is full when size
\* exceeds what was available at the start, else engine->Load(true).  fail is the
\* position of the file whose Load throws, 0 when none does.
RECURSIVE PreloadLoop(_, _, _, _, _)
PreloadLoop(fs, s, size, available_size, fail) ==
    IF s = <<>> THEN [status |-> "OK", loaded |-> {}]
    ELSE LET sz == size + fs[Head(s)].file_size
         IN IF sz > available_size THEN [status |-> "CacheFull", loaded |-> {}]
            ELSE IF fail = 1 THEN [status |-> "DBError", loaded |-> {}]
            ELSE LET rest == PreloadLoop(fs, Tail(s), sz, available_size,
                                         IF fail > 0 THEN fail - 1 ELSE 0)
                 IN [status |-> rest.status, loaded |-> {Head(s)} \cup rest.loaded]

\* DBImpl::PreloadTable: FilesToSearch with no id and no date, which is today's files.
\* The value returned to the model is the set of files this call has loaded.
PreloadTable(t, fail) ==
    /\ IF shutting_down
       THEN /\ ApiReturn("PreloadTable", ShutdownError, <<>>)
            /\ cpu_cache' = cpu_cache
       ELSE IF ~TableExists(tables, t)
            THEN /\ ApiReturn("PreloadTable", "NotFound", <<>>)
                 /\ cpu_cache' = cpu_cache
            ELSE LET fts == FilesToSearch(files, t, {}, {today})
                     available_size == cpu_cache.capacity - cpu_cache.usage
                     r == PreloadLoop(files, fts, 0, available_size, fail)
                     loaded == cpu_cache.loaded \cup r.loaded
                 IN /\ cpu_cache' = [cpu_cache EXCEPT !.loaded = loaded,
                                                      !.usage = SumSizes(files, loaded)]
                    /\ ApiReturn("PreloadTable", r.status, r.loaded)
    /\ UNCHANGED <<coordVars, mutexVars, memVars, poolVars, metaVars, ctl, ins, ci, del,
                   search_job>>

\* DBImpl::QueryAsync: a SearchJob over the files is put to the scheduler and waited for.
QueryAsync(op, fts, k, nq, nprobe) ==
    /\ search_job' = [k |-> k, nq |-> nq, nprobe |-> nprobe, files |-> fts]
    /\ ApiReturn(op, "OK", fts)

\* DBImpl::Query(table_id, k, nq, nprobe, ...) with today's date, and
\* DBImpl::Query(table_id, k, nq, nprobe, dates, ...).
QueryByDates(op, t, k, nq, nprobe, dates) ==
    /\ IF shutting_down
       THEN /\ ApiReturn(op, ShutdownError, <<>>)
            /\ search_job' = search_job
       ELSE IF ~TableExists(tables, t)
            THEN /\ ApiReturn(op, "NotFound", <<>>)
                 /\ search_job' = search_job
            ELSE QueryAsync(op, FilesToSearch(files, t, {}, dates), k, nq, nprobe)
    /\ UNCHANGED <<coordVars, mutexVars, memVars, poolVars, metaVars, ctl, ins, ci, del,
                   cpu_cache>>

Query(t, k, nq, nprobe) == QueryByDates("Query", t, k, nq, nprobe, {today})

QueryDates(t, k, nq, nprobe, dates) == QueryByDates("QueryDates", t, k, nq, nprobe, dates)

\* A query by file ids that searches whatever FilesToSearch returns (mutant of
\* QueryFileIds).
QueryFileIdsUnchecked(t, file_ids, k, nq, nprobe, dates) ==
    /\ QueryAsync("QueryFileIds", FilesToSearch(files, t, file_ids, dates), k, nq, nprobe)
    /\ UNCHANGED <<coordVars, mutexVars, memVars, poolVars, metaVars, ctl, ins, ci, del,
                   cpu_cache>>

\* DBImpl::Query(table_id, file_ids, k, nq, nprobe, dates, ...): Invalid file id
\* when FilesToSearch returns no file.
QueryFileIds(t, file_ids, k, nq, nprobe, dates) ==
    /\ IF shutting_down
       THEN /\ ApiReturn("QueryFileIds", ShutdownError, <<>>)
            /\ search_job' = search_job
       ELSE IF ~TableExists(tables, t)
            THEN /\ ApiReturn("QueryFileIds", "NotFound", <<>>)
                 /\ search_job' = search_job
            ELSE LET fts == FilesToSearch(files, t, file_ids, dates)
                 IN IF fts = <<>>
                    THEN /\ ApiReturn("QueryFileIds", "InvalidFileId", <<>>)
                         /\ search_job' = search_job
                    ELSE QueryAsync("QueryFileIds", fts, k, nq, nprobe)
    /\ UNCHANGED <<coordVars, mutexVars, memVars, poolVars, metaVars, ctl, ins, ci, del,
                   cpu_cache>>

(***************************************************************************)
(* The threads' steps, and the specifications.                             *)
(***************************************************************************)
Lifecycle == Start \/ StopBegin \/ StopMemSerialize \/ StopMemSerialized \/ StopJoin
             \/ StopCleanUp

Inserter == (\E t \in Tables : InsertBegin(t)) \/ InsertMem

\* The timer thread while the coordinator runs, and once it has seen shutting_down_.
TimerRun == TimerCheck \/ TimerMemSerialize \/ TimerMemSerialized \/ TimerCompaction
            \/ TimerClear \/ TimerBuildIndex

TimerExit == TimerWaitMergeLock \/ TimerWaitMerge \/ TimerWaitBuild

Timer == TimerRun \/ TimerExit

Compactor == CwStart \/ CwNextTable \/ CwNextGroup \/ CwMerge \/ CwArchive

Builder == IwStart \/ IwLock \/ IwBuild \/ IwBuilt

IndexRequests(engines, nlists) ==
    [engine_type : engines, metric_type : {"L2"}, nlist : nlists]

Indexer(engines, nlists) ==
    \E c \in Callers :
        \/ \E t \in Tables, index \in IndexRequests(engines, nlists) : CiBegin(c, t, index)
        \/ CiDrop(c) \/ CiUpdate(c) \/ CiWaitMergeLock(c) \/ CiWaitMerge(c)
        \/ CiPoll(c) \/ CiRemark(c)

Deleter == (\E t \in Tables, dates \in SUBSET {1} : DeleteTableBegin(t, dates))
           \/ DeleteTableJob

\* DeleteTable with a date: DropPartitionsByDates.
PartitionDeleter == \E t \in Tables : DeleteTableBegin(t, {today})

Reads == \/ \E t \in Tables : DescribeTable(t) \/ HasTable(t) \/ GetTableRowCount(t)
                                \/ DescribeIndex(t)
         \/ AllTables \/ Size

Writes == \/ \E t \in Tables, schema \in Schemas : CreateTable(t, schema)
          \/ \E t \in Tables, flag \in {1} : UpdateTableFlag(t, flag)
          \/ \E t \in Tables : DropIndex(t)
          \/ DropAll

Queries == \/ \E t \in Tables, fail \in {0, 1} : PreloadTable(t, fail)
           \/ \E t \in Tables, k \in {0, 1} :
                 \/ Query(t, k, 1, 1)
                 \/ \E dates \in SUBSET Dates : QueryDates(t, k, 1, 1, dates)
                 \/ \E file_ids \in SUBSET {1, 2} :
                       QueryFileIds(t, file_ids, k, 1, 1, {today})

Next == Lifecycle \/ Inserter \/ Timer \/ Compactor \/ Builder \/ Indexer(Engines, NLists)
        \/ Deleter \/ Reads \/ Writes \/ Queries \/ TimePasses

Spec == Init /\ [][Next]_vars

\* Start and Stop with inserts and the background threads.
LifeInserts == 2

NextLife == Lifecycle \/ Inserter \/ Timer \/ Compactor \/ Builder

InitLife == InitWith(Modes, {"IVFFLAT"}, MaxLifeCalls, LifeInserts, IndexCalls(0, 0), 0, 0)

SpecLife == InitLife /\ [][NextLife]_vars

(***************************************************************************)
(* Claims about the lifecycle, checked under SpecLife.                     *)
(***************************************************************************)
StopReturned == ctl.pc = "idle" /\ ctl.call = "Stop" /\ ctl.status = "OK"

\* C1: when Stop returns, the memory manager holds no unserialised vectors of a
\* successful insert: every step in which Stop returns OK leaves every buffer empty.
C1_NoInsertLost ==
    [][(ctl.pc # "idle" /\ ctl'.pc = "idle" /\ ctl'.status = "OK")
          => \A t \in Tables : mem'[t] = 0]_vars

\* C3: once Stop has returned on a coordinator that is not CLUSTER_READONLY, the
\* timer thread has exited and been joined, every future of both pools is ready
\* and neither pool's thread is in a task.
C3_StopDrainsBackground ==
    (StopReturned /\ mode # "CLUSTER_READONLY")
        => /\ timer_pc = "exited" /\ ~bg_timer_thread
           /\ AllReady(compact_thread_results) /\ AllReady(index_thread_results)
           /\ cw.pc = "idle" /\ iw.pc = "idle"

\* Stop has returned after both kinds of task were enqueued, a merge was committed
\* and an index built.
C3_Witness ==
    /\ StopReturned /\ mode # "CLUSTER_READONLY" /\ shutting_down
    /\ compact_thread_results # <<>> /\ index_thread_results # <<>>
    /\ \E f \in FileIds : files[f].type = "TO_DELETE"
    /\ \E f \in FileIds : files[f].type = "INDEX"

\* C4: every Start and Stop call returns OK, in every mode; between calls a timer
\* thread runs exactly when the coordinator is running and not CLUSTER_READONLY;
\* and meta.CleanUp is never called in CLUSTER_READONLY mode.
C4_StartStopOK ==
    /\ (ctl.pc = "idle" /\ ctl.call # "none") => ctl.status = "OK"
    /\ ctl.pc = "idle" =>
          ((timer_pc \notin {"none", "exited"})
              <=> (~shutting_down /\ mode # "CLUSTER_READONLY"))
    /\ mode = "CLUSTER_READONLY" => ctl.cleanups = 0

(***************************************************************************)
(* Inserts, the timer thread, the compaction task and DeleteTable with a   *)
(* date, on a running coordinator: the claims about MergeFiles.            *)
(***************************************************************************)
MergeInserts == 3

NextMerge == Inserter \/ TimerRun \/ Compactor \/ PartitionDeleter

InitMerge == InitWith({"SINGLE"}, Engines, 0, MergeInserts, IndexCalls(0, 0), MaxDeletes, 0)

SpecMerge == InitMerge /\ [][NextMerge]_vars

\* The same with the index build and the passing of time, after which the
\* TO_DELETE files are removed.
FilesInserts == 2

NextFiles == NextMerge \/ Builder \/ TimePasses

InitFiles == InitWith({"SINGLE"}, Engines, 0, FilesInserts, IndexCalls(0, 0), MaxDeletes, 0)

SpecFiles == InitFiles /\ [][NextFiles]_vars

\* The edges of the file state diagram, a file's creation included.
DiagramEdges ==
    {<<"NONE", "NEW">>, <<"NONE", "NEW_MERGE">>, <<"NEW", "RAW">>, <<"NEW", "NEW_MERGE">>,
     <<"NEW_MERGE", "RAW">>, <<"NEW_MERGE", "TO_INDEX">>, <<"RAW", "TO_INDEX">>,
     <<"TO_INDEX", "NEW_INDEX">>, <<"NEW_INDEX", "INDEX">>, <<"TO_DELETE", "REMOVED">>}
    \cup {<<ty, "TO_DELETE">> : ty \in FileTypes \ {"TO_DELETE"}}

\* C6: every change of a file's file_type is an edge of the file state diagram; in
\* particular a file that is TO_DELETE becomes nothing but removed.
C6_TypeChangesAreEdges ==
    [][\A f \in FileIds :
          files'[f].type # files[f].type
              => <<files[f].type, files'[f].type>> \in DiagramEdges]_vars

MergeReturnedOK == merge_ret.status = "OK"

\* C7 as stated: when MergeFiles has returned OK, every file of its input list is
\* TO_DELETE and the target is not NEW_MERGE and holds the rows of all the input
\* files.
C7_MergeConsumesInputs ==
    MergeReturnedOK
        => /\ \A f \in Range(merge_ret.files) : files[f].type = "TO_DELETE"
           /\ files[merge_ret.target].type \notin {"NONE", "REMOVED", "NEW_MERGE"}
           /\ files[merge_ret.target].row_count = SumRows(files, merge_ret.files)

\* C7 amended: when MergeFiles has returned OK, every input file merged before the
\* loop stopped (the files up to the first one at which the engine's size reached
\* index_file_size) is TO_DELETE, and the target is not NEW_MERGE and holds the rows
\* of exactly those files.
C7_MergeConsumesPrefix ==
    MergeReturnedOK
        => /\ \A f \in Range(merge_ret.consumed) : files[f].type = "TO_DELETE"
           /\ files[merge_ret.target].type \notin {"NONE", "REMOVED", "NEW_MERGE"}
           /\ files[merge_ret.target].row_count = SumRows(files, merge_ret.consumed)

\* MergeFiles has returned OK after the loop stopped before the end of a list of
\* three files.
C7_Witness ==
    /\ MergeReturnedOK
    /\ Len(merge_ret.consumed) = 2 /\ Len(merge_ret.files) = 3
    /\ files[merge_ret.files[3]].type = "RAW"
    /\ files[merge_ret.target].row_count = 2

\* C8: a step of MergeFiles changes the type of a source file only if it is the
\* commit, and the commit gives the target its final type and marks every file
\* merged TO_DELETE in the same step: the two change together or not at all.
C8_MergeCommitsTogether ==
    [][(cw.pc \in {"next_group", "merge"} /\ cw' # cw)
          => LET srcs == IF cw.pc = "merge" THEN Range(cw.files) ELSE Range(cw'.files)
                 committed == /\ cw.pc = "merge"
                              /\ files'[cw.target].type \in {"RAW", "TO_INDEX"}
             IN /\ (\E f \in srcs : files'[f].type # files[f].type) => committed
                /\ committed => \A f \in Range(merge_ret'.consumed) :
                                    files'[f].type = "TO_DELETE"]_vars

\* A merge of two RAW files has been committed: both are TO_DELETE and the target
\* has its final type.
C8_Witness ==
    /\ MergeReturnedOK
    /\ Len(merge_ret.consumed) = 2
    /\ \A f \in Range(merge_ret.consumed) : files[f].type = "TO_DELETE"
    /\ files[merge_ret.target].type \in {"RAW", "TO_INDEX"}

(***************************************************************************)
(* CreateIndex called by one thread, with inserts, the timer thread and    *)
(* both pools, on a running coordinator.                                   *)
(***************************************************************************)
IndexInserts == 2

NextIndex == Inserter \/ TimerRun \/ Compactor \/ Builder \/ Indexer(Engines, {16})

InitIndex == InitWith({"SINGLE"}, Engines, 0, IndexInserts,
                      IndexCalls(MaxIndexCalls, 0), 0, 0)

SpecIndex == InitIndex /\ [][NextIndex]_vars

IndexTypes == {"TO_INDEX", "NEW_INDEX", "INDEX"}

\* C5: while no CreateIndex call is changing the table's index, a table whose
\* engine_type is IDMAP has no file that is TO_INDEX, NEW_INDEX or INDEX.
C5_IdmapHasNoIndexFiles ==
    \A t \in Tables :
        (TableExists(tables, t) /\ tables[t].engine_type = "IDMAP"
             /\ build_index_mutex \notin Callers)
            => FilesByType(files, t, IndexTypes) = {}

CreateIndexReturnsOK(c) == ci[c].pc = "poll" /\ ci'[c].pc = "idle" /\ ci'[c].status = "OK"

\* C9: CreateIndex returns OK only after a poll that succeeded and was empty: in
\* the step in which it returns OK, no file of the table is in a watched type.
C9_ReturnsAfterEmptyPoll ==
    [][\A c \in Callers :
          CreateIndexReturnsOK(c)
              => FilesByType(files, ci[c].table, Watched(ci[c].index.engine_type)) = {}]_vars

\* The file type CreateIndex is to leave every file in.
Terminal(engine_type) == IF engine_type = "IDMAP" THEN "RAW" ELSE "INDEX"

\* C10: when CreateIndex(t, index) returns OK after a poll that succeeded, every
\* file of t that is not deleted is INDEX, or RAW when index.engine_type is IDMAP.
C10_FilesTerminalAtReturn ==
    [][\A c \in Callers :
          (CreateIndexReturnsOK(c) /\ ci'[c].poll = "ok")
              => \A f \in FileIds :
                    (files[f].table = ci[c].table /\ files[f].type # "TO_DELETE")
                        => files[f].type = Terminal(ci[c].index.engine_type)]_vars

(***************************************************************************)
(* The public operations of the thread api, with Start and Stop, inserts   *)
(* and the background threads.                                             *)
(***************************************************************************)
ApiInserts == 2
ApiLifeCalls == 1
ApiCalls == 1

NextApi == Lifecycle \/ Inserter \/ Timer \/ Compactor \/ Builder \/ Reads \/ Writes
           \/ Queries

InitApi == InitWith({"SINGLE"}, {"IVFFLAT"}, ApiLifeCalls, ApiInserts, IndexCalls(0, 0),
                    0, ApiCalls)

SpecApi == InitApi /\ [][NextApi]_vars

\* C2: on a stopped coordinator (shutting_down_ is set and no Start or Stop call is
\* running), a public operation that was called with shutting_down_ set returns
\* the shutdown error.
C2_StoppedReturnsShutdown ==
    [][(ret' # ret /\ ret'.stopped /\ shutting_down /\ ctl.pc = "idle")
          => ret'.status = ShutdownError]_vars

(***************************************************************************)
(* CreateIndex on a running coordinator whose threads are scheduled        *)
(* fairly: the timer thread, both pools' threads and a caller inside       *)
(* CreateIndex keep taking steps, a build of a TO_INDEX file succeeds, the *)
(* metadata store answers every poll, and a merge ends OK or with          *)
(* Serialize throwing.  No insert begins after the first CreateIndex call. *)
(***************************************************************************)
FairInserts == 2
FairIndexCalls == 2

CompactorFair == CwStart \/ CwNextTable \/ CwNextGroup \/ CwMergeStep("OK")
                 \/ CwMergeStep("DBError") \/ CwArchive

\* The steps of thread c inside a CreateIndex call.
CiRuns(c) == CiDrop(c) \/ CiUpdate(c) \/ CiWaitMergeLock(c) \/ CiWaitMerge(c)
             \/ CiPollStep(c, TRUE) \/ CiRemark(c)

IndexerFair ==
    \E c \in Callers :
        \/ \E t \in Tables, index \in IndexRequests({"IVFFLAT"}, {16}) : CiBegin(c, t, index)
        \/ CiRuns(c)

\* No insert begins once CreateIndex has been called.
NoCallYet == \A c \in Callers : ci[c].pc = "idle" /\ ci[c].table = ""

InserterFair == (NoCallYet /\ \E t \in Tables : InsertBegin(t)) \/ InsertMem

\* A build fails on a file only when the file is no longer TO_INDEX.
BuilderFair == IwStart \/ IwLock \/ IwBuildFile \/ IwBuilt
               \/ (iw.pc = "build" /\ files[Head(iw.job)].type # "TO_INDEX" /\ IwBuildFails)

NextFair == InserterFair \/ TimerRun \/ CompactorFair \/ BuilderFair \/ IndexerFair

InitFair == InitWith({"SINGLE"}, {"IDMAP"}, 0, FairInserts,
                     IndexCalls(FairIndexCalls, 0), 0, 0)

\* Every thread keeps running; a caller that waits for compact_result_mutex_, which
\* the timer thread locks on every tick, gets it (strong fairness).
Fairness == /\ WF_vars(InsertMem)
            /\ WF_vars(TimerRun)
            /\ WF_vars(CompactorFair)
            /\ WF_vars(BuilderFair)
            /\ \A c \in Callers : SF_vars(CiRuns(c))

SpecFair == InitFair /\ [][NextFair]_vars /\ Fairness

ReindexInserts == merge_trigger_number - 1     \* too few files for a merge
ReindexCalls == 2

AnyIndex == [engine_type : Engines, metric_type : Metrics, nlist : NLists]

Reindexer ==
    \E c \in Callers :
        \/ \E t \in Tables, index \in AnyIndex : CiBegin(c, t, index)
        \/ CiDrop(c) \/ CiUpdate(c) \/ CiWaitMergeLock(c) \/ CiWaitMerge(c)
        \/ CiPoll(c) \/ CiRemark(c)

\* With one insert a date group never reaches merge_trigger_number files, so the
\* compaction task runs without MergeFiles.
NextReindex == Inserter \/ TimerRun \/ CwStart \/ CwNextTable \/ CwNextGroup \/ CwArchive
               \/ Builder \/ Reindexer

InitReindex == InitWith({"SINGLE"}, Engines, 0, ReindexInserts,
                        IndexCalls(ReindexCalls, 0), 0, 0)

SpecReindex == InitReindex /\ [][NextReindex]_vars

\* Thread c has entered CreateIndex with a request that, with the stored metric
\* type in place of its own, is the table's TableIndex.
BeginsWithCurrentIndex(c) ==
    /\ ci[c].pc = "idle" /\ ci'[c].left = ci[c].left - 1
    /\ TableExists(tables, ci'[c].table)
    /\ [ci'[c].index EXCEPT !.metric_type = tables[ci'[c].table].metric_type]
          = DescribeTableIndex(tables, ci'[c].table)

\* Thread c takes a step of CreateIndex after the part under build_index_mutex_.
PollsOnly(c) ==
    /\ ci'[c] # ci[c]
    /\ ci[c].pc \in {"wait_merge", "wait_merge_locked", "poll", "remark"}

\* C12: a CreateIndex call whose index, with the stored metric type, is the
\* table's TableIndex goes straight to waiting and polling, without DropIndex or
\* UpdateTableIndex (so a second call with the index of the first does that), and
\* its waiting and polling steps change no TableIndex and no INDEX file.
C12_SameIndexOnlyPolls ==
    [][\A c \in Callers :
          /\ BeginsWithCurrentIndex(c)
                => (ci'[c].pc = "wait_merge" /\ tables' = tables /\ files' = files)
          /\ PollsOnly(c)
                => /\ tables' = tables
                   /\ ci'[c].pc \notin {"drop", "update"}
                   /\ \A f \in FileIds :
                         files[f].type = "INDEX" => files'[f] = files[f]]_vars

\* The second of two calls polls, having dropped nothing, with the table's index
\* the one it asked for and an INDEX file in place.
C12_Witness ==
    /\ ci["c1"].left = 0 /\ ci["c1"].pc = "poll" /\ ~ci["c1"].dropped
    /\ ci["c1"].index.engine_type = "IVFFLAT"
    /\ DescribeTableIndex(tables, "t1") = ci["c1"].new_index
    /\ \E f \in FileIds : files[f].type = "INDEX"

\* Thread c has entered CreateIndex with a request whose engine_type or nlist is
\* not the table's.
BeginsWithOtherIndex(c) ==
    /\ ci[c].pc = "idle" /\ ci'[c].left = ci[c].left - 1
    /\ TableExists(tables, ci'[c].table)
    /\ \/ ci'[c].index.engine_type # tables[ci'[c].table].engine_type
       \/ ci'[c].index.nlist # tables[ci'[c].table].nlist

CallsInserts == 2
PreloadCalls == 2

Preloader == \E t \in Tables, fail \in 0 .. 2 : PreloadTable(t, fail)

NextCalls == Inserter \/ TimerRun \/ Compactor \/ Preloader

InitCalls == InitWith({"SINGLE"}, {"IDMAP"}, 0, CallsInserts, IndexCalls(0, 0), 0,
                      PreloadCalls)

SpecCalls == InitCalls /\ [][NextCalls]_vars

\* The first n files of the listing s, and the longest prefix of s whose files'
\* sizes add up to no more than budget.
Prefix(s, n) == {s[i] : i \in 1 .. n}

LongestFit(fs, s, budget) ==
    CHOOSE n \in 0 .. Len(s) :
        /\ SumSizes(fs, Prefix(s, n)) <= budget
        /\ \A m \in 0 .. Len(s) : SumSizes(fs, Prefix(s, m)) <= budget => m <= n

\* A PreloadTable call returns from its loop.
PreloadReturns ==
    /\ api'.left = api.left - 1
    /\ ret'.op = "PreloadTable"
    /\ ret'.status \in {"OK", "CacheFull", "DBError"}

C16_NoJobForInvalidArguments ==
    [][search_job' # search_job => (search_job'.k > 0 /\ search_job'.nq > 0)]_vars

\* A Query by file ids returns on a running coordinator.
QueryFileIdsReturns ==
    /\ api'.left = api.left - 1
    /\ ret'.op = "QueryFileIds" /\ ~ret'.stopped

\* The files of the listing s are searchable files in the store's order.
Enumerated(fs, s) ==
    /\ \A i \in 1 .. Len(s) : fs[s[i]].type \in Searchable
    /\ \A i, j \in 1 .. Len(s) : i < j => s[i] < s[j]

TablesCalls == 3
TablesInserts == 1
TablesDeletes == 2

NextTables == Writes \/ Reads \/ Inserter \/ Deleter

InitTables == InitWith({"SINGLE"}, {"IDMAP"}, 0, TablesInserts, IndexCalls(0, 0),
                       TablesDeletes, TablesCalls)

SpecTables == InitTables /\ [][NextTables]_vars

\* DescribeTable returns OK right after CreateTable has returned OK.
DescribeAfterCreate ==
    /\ ret.op = "CreateTable" /\ ret.status = "OK"
    /\ api'.left = api.left - 1
    /\ ret'.op = "DescribeTable" /\ ret'.status = "OK"

\* C18: DescribeTable called after CreateTable(s) returns s, with index_file_size
\* in MB as s gave it and every other field as in s, and CreateTable leaves the
\* caller's schema object as it was given.
C18_CreateDescribeRoundTrip ==
    [][/\ DescribeAfterCreate => ret'.value = ret.value
       /\ (api'.left = api.left - 1 /\ ret'.op = "CreateTable" /\ ret'.status = "OK")
             => /\ ret'.value \in Schemas
                /\ \E t \in Tables :
                      /\ ~TableExists(tables, t) /\ TableExists(tables', t)
                      /\ tables'[t].index_file_size = ret'.value.index_file_size * ONE_MB]_vars

\* A table created with 2 MB and the metric type IP has been described.
C18_Witness ==
    /\ ret.op = "DescribeTable" /\ ret.status = "OK"
    /\ ret.value.index_file_size = 2 /\ ret.value.metric_type = "IP"
    /\ tables["t1"].index_file_size = 2 * ONE_MB

\* C19: no file is at once an input of a MergeFiles run in progress and in the
\* job of the index builder, so a CreateIndex call that has passed
\* WaitMergeFileFinish re-marks no file that a merge is consuming.
C19_NoFileMergedAndBuilt ==
    \A f \in FileIds :
        ~(/\ cw.pc = "merge" /\ f \in Range(cw.files)
          /\ iw.pc \in {"build", "built"} /\ f \in Range(iw.job))

\* A task has been appended to the list of futures.
Enqueued(results, after) ==
    /\ after # results
    /\ after # <<>> /\ after[Len(after)].st = "queued"

\* C20 as stated: once shutting_down_ is set, no BackgroundCompaction and no
\* BackgroundBuildIndex task is enqueued.
C20_NoEnqueueAfterShutdown ==
    [][shutting_down =>
          /\ ~Enqueued(compact_thread_results, compact_thread_results')
          /\ ~Enqueued(index_thread_results, index_thread_results')]_vars

\* The timer thread has seen shutting_down_ at the top of its loop.
TimerSawShutdown == timer_pc \in {"wait_merge", "wait_merge_locked", "wait_build", "exited"}

\* C20 amended: the timer thread looks at shutting_down_ at the top of its loop
\* only.  With the flag set, its step from there goes to the waits; a task is
\* enqueued with the flag set only by the tick that was under way, never once the
\* flag has been seen; and the thread exits with every task of both lists
\* completed.
C20_NoEnqueueOnceSeen ==
    [][/\ (shutting_down /\ timer_pc = "check" /\ timer_pc' # timer_pc)
             => timer_pc' = "wait_merge"
       /\ (Enqueued(compact_thread_results, compact_thread_results')
              \/ Enqueued(index_thread_results, index_thread_results'))
             => (~TimerSawShutdown /\ timer_pc \in {"compaction", "build_index"})
       /\ (timer_pc # "exited" /\ timer_pc' = "exited")
             => (AllReady(compact_thread_results') /\ AllReady(index_thread_results'))]_vars

\* The timer thread has exited on shutdown with a task of each kind in its lists,
\* both completed, and a flushed file in the store.
C20_Witness ==
    /\ shutting_down /\ timer_pc = "exited"
    /\ compact_thread_results # <<>> /\ index_thread_results # <<>>
    /\ AllReady(compact_thread_results) /\ AllReady(index_thread_results)
    /\ \E f \in FileIds : files[f].type = "RAW"

\* DeleteTable is called, on a running coordinator, with the id of a table that
\* does not exist.
DeletesMissingTable ==
    /\ del.pc = "idle" /\ del'.left = del.left - 1
    /\ ~shutting_down
    /\ ~TableExists(tables, del'.table)

\* C15: DeleteTable called with the id of a table that does not exist returns
\* NotFound, and not OK.
C15_DeleteMissingTableNotFound ==
    [][DeletesMissingTable => (del'.pc = "idle" /\ ret'.status = "NotFound")]_vars

(***************************************************************************)
(* CreateIndex against a running index build, checked under SpecIndex.     *)
(***************************************************************************)
TableIndexes(tb) == [t \in Tables |-> DescribeTableIndex(tb, t)]

\* A BackgroundBuildIndex run between its FilesToIndex call and the end of its job.
BuildRunning == iw.pc \in {"build", "built"}

C22_OneTaskOfAKind ==
    /\ [](Len(compact_thread_results) <= 1 /\ Len(index_thread_results) <= 1)
    /\ [][/\ Enqueued(compact_thread_results, compact_thread_results')
               => /\ AllReady(compact_thread_results) /\ cw.pc = "idle"
                  /\ Len(compact_thread_results') = 1
          /\ Enqueued(index_thread_results, index_thread_results')
               => /\ AllReady(index_thread_results) /\ iw.pc = "idle"
                  /\ Len(index_thread_results') = 1]_vars

\* A further task of each kind is enqueued after an earlier BackgroundCompaction
\* merged files and an earlier BackgroundBuildIndex built an index, and were reaped.
C22_Witness ==
    /\ compact_thread_results # <<>> /\ compact_thread_results[1].st = "queued"
    /\ index_thread_results # <<>> /\ index_thread_results[1].st = "queued"
    /\ \E f \in FileIds : files[f].type = "TO_DELETE"
    /\ \E f \in FileIds : files[f].type = "INDEX"

\* C23: a table id flushed by MemSerialize, on the timer thread or on the thread
\* in Stop, leaves compact_table_ids_ only when the BackgroundCompaction task just
\* enqueued was given it: every id removed by a step is among the ids of the last
\* future of compact_thread_results_.
C23_NoFlushedIdDropped ==
    [][\A t \in compact_table_ids \ compact_table_ids' :
          /\ compact_thread_results' # <<>>
          /\ t \in compact_thread_results'[Len(compact_thread_results')].ids]_vars

(***************************************************************************)
(* MergeFiles' failures and the target's type, checked under SpecMerge.    *)
(***************************************************************************)
\* MergeFiles returns a status other than OK after its target was created.
MergeReturnedError ==
    /\ cw.pc = "merge" /\ cw'.pc # "merge"
    /\ merge_ret'.status # "OK" /\ merge_ret'.target # 0

\* C24: when MergeFiles returns a non-OK status after its target was created
\* (Serialize throws, or the final UpdateTableFiles fails), the target is TO_DELETE
\* and every source file has the file type it had before.
C24_FailedMergeDropsTarget ==
    [][MergeReturnedError
          => /\ files'[merge_ret'.target].type = "TO_DELETE"
             /\ \A f \in Range(merge_ret'.files) : files'[f].type = files[f].type]_vars

(***************************************************************************)
(* The compaction ticks under fair scheduling: inserts, the timer thread   *)
(* and the compaction pool's thread, every metadata call succeeding.  The  *)
(* timer thread and the pool's thread keep running; no client is bound to  *)
(* insert again.                                                           *)
(***************************************************************************)
CompactorTick == CwStart \/ CwNextTable \/ CwNextGroup \/ CwMergeStep("OK") \/ CwArchive

NextTick == Inserter \/ TimerRun \/ CompactorTick

InitTick == InitWith({"SINGLE"}, Engines, 0, MergeInserts, IndexCalls(0, 0), 0, 0)

FairTick == WF_vars(InsertMem) /\ WF_vars(TimerRun) /\ WF_vars(CompactorTick)

SpecTick == InitTick /\ [][NextTick]_vars /\ FairTick

\* MergeFiles has returned OK and left file f of its input list un-merged: its loop
\* stopped at the size threshold before f.
LeftUnmerged(f) ==
    /\ merge_ret.status = "OK"
    /\ f \in Range(merge_ret.files) \ Range(merge_ret.consumed)

\* BackgroundMergeFiles has enumerated file f among the merge candidates of its
\* table.
OfferedToMerge(f) ==
    /\ cw.pc \in {"next_group", "merge"}
    /\ \/ \E i \in 1 .. Len(cw.groups) : f \in Range(cw.groups[i].files)
       \/ f \in Range(cw.files)

\* C25: the files that MergeFiles leaves un-merged when it stops at the size
\* threshold keep their file type in that step, and each of them is later
\* enumerated again by a BackgroundMergeFiles call for its table.
C25_LeftoversOfferedAgain ==
    /\ [][\A f \in FileIds : LeftUnmerged(f)' => files'[f].type = files[f].type]_vars
    /\ \A f \in FileIds : LeftUnmerged(f) ~> OfferedToMerge(f)

(***************************************************************************)
(* Stop against a running BackgroundCompaction with several date groups to *)
(* merge: inserts over two dates, the timer thread, the compaction pool's  *)
(* thread and one Stop call.                                               *)
(***************************************************************************)
StopInserts == 2 * merge_trigger_number
StopCalls == 1

NextStop == Lifecycle \/ Inserter \/ Timer \/ Compactor \/ DayPasses

InitStop == InitWith({"SINGLE"}, {"IDMAP"}, StopCalls, StopInserts, IndexCalls(0, 0), 0, 0)

SpecStop == InitStop /\ [][NextStop]_vars

\* A MergeFiles call returns, with any status.
MergeReturns == merge_ret' # merge_ret /\ merge_ret'.status # "none"

IndexFileSizes == {1, 2}

InitTarget == InitSized({"SINGLE"}, Engines, IndexFileSizes, 0, MergeInserts,
                        IndexCalls(0, 0), MaxDeletes, 0)

SpecTarget == InitTarget /\ [][NextMerge]_vars

\* MergeFiles commits its batch and returns OK.
MergeCommits == cw.pc = "merge" /\ merge_ret'.status = "OK"

\* BackgroundMergeFiles passes over a date group smaller than merge_trigger_number.
SkipsGroup ==
    /\ cw.pc = "next_group" /\ cw.groups # <<>>
    /\ Len(Head(cw.groups).files) < merge_trigger_number
    /\ cw' # cw

\* C27: a successful merge commits its target as RAW when the target's engine type
\* is IDMAP, and otherwise as TO_INDEX when the merged artifact's physical size is
\* at least the target's index_file_size and as RAW when it is smaller; and a date
\* group of fewer than merge_trigger_number files is passed over with every file
\* unchanged, so that no MergeFiles call runs on such a group.
C27_TargetTypeAndTrigger ==
    /\ [][/\ MergeCommits =>
                LET target == merge_ret'.target
                    physical_size == SumRows(files, merge_ret'.consumed) * RowBytes
                IN /\ files'[target].file_size = physical_size
                   /\ files[target].engine_type = "IDMAP" => files'[target].type = "RAW"
                   /\ (files[target].engine_type # "IDMAP"
                          /\ physical_size >= files[target].index_file_size)
                         => files'[target].type = "TO_INDEX"
                   /\ (files[target].engine_type # "IDMAP"
                          /\ physical_size < files[target].index_file_size)
                         => files'[target].type = "RAW"
          /\ SkipsGroup => (files' = files /\ cw'.pc = "next_group")]_vars
    /\ [](cw.pc = "merge" => Len(cw.files) >= merge_trigger_number)

\* A merge has committed a target whose size is exactly index_file_size as
\* TO_INDEX.
C27_Witness ==
    /\ merge_ret.status = "OK"
    /\ files[merge_ret.target].type = "TO_INDEX"
    /\ files[merge_ret.target].file_size = files[merge_ret.target].index_file_size

(***************************************************************************)
(* Every thread together under fair scheduling: one Stop call, inserts,    *)
(* one CreateIndex call, the timer thread and both pools' threads.  Every  *)
(* step of a thread is a metadata call or a scheduler job that ends; a     *)
(* thread that waits for a mutex released again and again gets it.         *)
(***************************************************************************)
WaitInserts == merge_trigger_number - 1
WaitLifeCalls == 1
WaitIndexCalls == 1

\* The steps of the thread inside Stop.
StopRuns == StopMemSerialize \/ StopMemSerialized \/ StopJoin \/ StopCleanUp

\* BackgroundCompaction on a table with one file at most, where no date group
\* reaches merge_trigger_number.
CompactorIdle == CwStart \/ CwNextTable \/ CwNextGroup \/ CwArchive

NextWait == Lifecycle \/ InserterFair \/ Timer \/ CompactorIdle \/ Builder \/ IndexerFair

InitWait == InitWith({"SINGLE"}, {"IDMAP"}, WaitLifeCalls, WaitInserts,
                     IndexCalls(WaitIndexCalls, 0), 0, 0)

FairWait == /\ WF_vars(InsertMem)
            /\ WF_vars(StopRuns)
            /\ WF_vars(Timer)
            /\ WF_vars(CompactorIdle)
            /\ WF_vars(Builder)
            /\ \A c \in Callers : SF_vars(CiRuns(c))

SpecWait == InitWait /\ [][NextWait]_vars /\ FairWait

\* Thread c is in CreateIndex before its poll loop: inside the critical section of
\* build_index_mutex_, or in WaitMergeFileFinish.
CiWaits(c) == ci[c].pc \in {"drop", "update", "wait_merge", "wait_merge_locked"}

\* C28: no thread waits forever.  Each of the four mutexes is free again and
\* again; the futures of both lists are all ready again and again, so each task
\* enqueued completes; a Stop call under way returns, which takes the timer
\* thread's waits and exit; and a CreateIndex call gets through its critical
\* section and WaitMergeFileFinish.
C28_NoWaitForever ==
    /\ []<>(mem_serialize_mutex = "free")
    /\ []<>(compact_result_mutex = "free")
    /\ []<>(index_result_mutex = "free")
    /\ []<>(build_index_mutex = "free")
    /\ []<>(AllReady(compact_thread_results) /\ cw.pc = "idle")
    /\ []<>(AllReady(index_thread_results) /\ iw.pc = "idle")
    /\ (ctl.pc # "idle") ~> (ctl.pc = "idle")
    /\ \A c \in Callers : CiWaits(c) ~> ~CiWaits(c)

\* A chain of four waiting threads: Stop joins the timer thread, which waits in
\* WaitBuildIndexFinish for the index task, which waits for build_index_mutex_,
\* which a CreateIndex call holds.
C28_Witness ==
    /\ ctl.pc = "stop_join"
    /\ timer_pc = "wait_build" /\ ~AllReady(index_thread_results)
    /\ iw.pc = "lock"
    /\ \E c \in Callers : build_index_mutex = c

====
